---------------------------- MODULE Spec2Model ----------------------------
(***************************************************************************)
(* Model of the anzum.ai chat assistant: the FAQ matcher                   *)
(* (services/faq.py), the Gemini wrapper (services/agentic_ai.py) and the  *)
(* chat panel (ui/chat.py).                                                *)
(*                                                                         *)
(* Python strings are sequences of one-character strings.  A few fixed     *)
(* literals of the source (the FAQ banner, the error prefix, the fallback  *)
(* sentence) are single tokens of such a sequence.  Python's None is the   *)
(* one-token sequence NONE, which no string of the model contains.         *)
(***************************************************************************)
EXTENDS Integers, Sequences, FiniteSets, TLC

VARIABLES
    faq_list,       \* FAQHandler.faq_list: the loaded FAQ records, in order
    chat_history,   \* st.session_state.chat_history: the transcript
    chat_session,   \* AgenticAI.chat_session: identity of the held chat handle
    started,        \* number of handles model.start_chat() has returned so far
    last,           \* observation of the handler that ran last (history variable)
    reset_mark,     \* handles created before the last completed Start Over
    turns,          \* number of turns handled in this session
    resets,         \* number of Start Over clicks in this session
    probe,          \* one direct call of find_similar_question and its result
    config          \* one call of load_configuration, its file and its result

vars == <<faq_list, chat_history, chat_session, started, last, reset_mark,
          turns, resets, probe, config>>

---------------------------------------------------------------------------
(* Bounds of the model.                                                    *)

MaxTurns == 2

MaxResets == 1

MaxStrLen == 3

MaxFaqLen == 2

---------------------------------------------------------------------------
(* Strings.                                                                *)

NONE == <<"<None>">>

Whitespace == {" "}

Letters == {"a", "b", "c", "A"}

Alphabet == Letters \cup Whitespace

RECURSIVE StringsUpTo(_, _)
StringsUpTo(S, n) ==
    IF n = 0 THEN {<<>>}
    ELSE LET shorter == StringsUpTo(S, n - 1)
         IN  shorter \cup {Append(s, c) : s \in shorter, c \in S}

\* str.lower() on one character.
LowerChar(c) == IF c = "A" THEN "a" ELSE c

\* str.lower()
Lower(s) == [i \in 1..Len(s) |-> LowerChar(s[i])]

RECURSIVE LStrip(_)
LStrip(s) ==
    IF s # <<>> /\ Head(s) \in Whitespace THEN LStrip(Tail(s)) ELSE s

RECURSIVE RStrip(_)
RStrip(s) ==
    IF s # <<>> /\ s[Len(s)] \in Whitespace
    THEN RStrip(SubSeq(s, 1, Len(s) - 1))
    ELSE s

\* str.strip()
Strip(s) == RStrip(LStrip(s))

\* str(x) of a value that is a string or None.
Str(x) == IF x = NONE THEN <<"N", "o", "n", "e">> ELSE x

\* Python truthiness of a value that is a string or None.
Truthy(x) == x # NONE /\ x # <<>>

\* dict.get(key) of a record whose absent keys are held as NONE.
Get(d, key) == d[key]

\* dict.get(key, default)
GetOr(d, key, default) == IF d[key] = NONE THEN default ELSE d[key]

---------------------------------------------------------------------------
(* difflib.SequenceMatcher(None, a, b).ratio(), for strings shorter than   *)
(* the 200 characters at which the autojunk heuristic starts.  Positions   *)
(* are 1-based; a range lo..hi-1 is written (lo, hi) as in difflib.        *)

\* Length of the common run of a from i and b from j inside the ranges.
RECURSIVE CommonRun(_, _, _, _, _, _)
CommonRun(a, b, i, j, ahi, bhi) ==
    IF i < ahi /\ j < bhi /\ a[i] = b[j]
    THEN 1 + CommonRun(a, b, i + 1, j + 1, ahi, bhi)
    ELSE 0

\* find_longest_match: the longest block; of those the one starting
\* earliest in a; of those the one starting earliest in b.
find_longest_match(a, b, alo, ahi, blo, bhi) ==
    LET cells == (alo..(ahi - 1)) \X (blo..(bhi - 1))
        size == [p \in cells |-> CommonRun(a, b, p[1], p[2], ahi, bhi)]
        bestsize == CHOOSE k \in {size[p] : p \in cells} :
                        \A p \in cells : size[p] <= k
        besti == CHOOSE i \in alo..(ahi - 1) :
                     /\ \E j \in blo..(bhi - 1) : size[<<i, j>>] = bestsize
                     /\ \A p \in cells : size[p] = bestsize => i <= p[1]
        bestj == CHOOSE j \in blo..(bhi - 1) :
                     /\ size[<<besti, j>>] = bestsize
                     /\ \A l \in blo..(j - 1) : size[<<besti, l>>] # bestsize
    IN  IF cells = {} \/ bestsize = 0 THEN <<alo, blo, 0>>
        ELSE <<besti, bestj, bestsize>>

\* get_matching_blocks: total size of the blocks found by splitting around
\* the longest match and recursing to its left and to its right.
RECURSIVE matches(_, _, _, _, _, _)
matches(a, b, alo, ahi, blo, bhi) ==
    LET m == find_longest_match(a, b, alo, ahi, blo, bhi)
        i == m[1]
        j == m[2]
        k == m[3]
    IN  IF k = 0 THEN 0
        ELSE k
             + (IF alo < i /\ blo < j
                THEN matches(a, b, alo, i, blo, j) ELSE 0)
             + (IF i + k < ahi /\ j + k < bhi
                THEN matches(a, b, i + k, ahi, j + k, bhi) ELSE 0)

\* ratio(): 2.0 * matches / (len(a) + len(b)), and 1.0 for two empty
\* strings; held as the exact fraction <<numerator, denominator>>.
ratio(a, b) ==
    LET length == Len(a) + Len(b)
    IN  IF length = 0 THEN <<1, 1>>
        ELSE <<2 * matches(a, b, 1, Len(a) + 1, 1, Len(b) + 1), length>>

\* x > y and x >= y on fractions with positive denominators.  The floats of
\* the source are the correctly rounded values of these fractions, and two
\* different fractions of strings this short never round to the same float.
Gt(x, y) == x[1] * y[2] > y[1] * x[2]

Ge(x, y) == x[1] * y[2] >= y[1] * x[2]

---------------------------------------------------------------------------
(* services/faq.py                                                         *)

\* The default of the threshold parameter, 0.65.
DEFAULT_THRESHOLD == <<13, 20>>

\* The loop of find_similar_question over faq_list[1..n]: the triple
\* <<highest_similarity, most_similar_question, best_answer>> after n records.
RECURSIVE scan(_, _, _)
scan(faqs, target, n) ==
    IF n = 0 THEN <<(<<0, 1>>), NONE, NONE>>
    ELSE LET before == scan(faqs, target, n - 1)
             faq == faqs[n]
             q == Lower(Str(GetOr(faq, "question", <<>>)))
             sim == ratio(target, q)
         IN  IF Gt(sim, before[1])
             THEN <<sim, Get(faq, "question"), Get(faq, "answer")>>
             ELSE before

find_similar_question(faqs, user_input, threshold) ==
    LET target == Strip(Lower(user_input))
        found == scan(faqs, target, Len(faqs))
    IN  IF Ge(found[1], threshold)
        THEN <<found[2], found[3]>>
        ELSE <<NONE, NONE>>

---------------------------------------------------------------------------
(* The remote boundary: what langdetect and the Gemini client can answer.  *)

\* str(e) of the exceptions the client raises.
ErrorDetails == {<<>>, <<"timeout">>}

\* response.text of a response that carries text.
RemoteTexts == {<<" ">>, <<" ", "o", "k", " ">>}

\* What chat_session.send_message(prompt) and the reading of response.text
\* can do: give text, give the text "", give no text at all, or raise.
SendOutcomes ==
    [kind : {"text"}, text : RemoteTexts \cup {<<>>}, detail : {<<>>}]
    \cup [kind : {"missing"}, text : {<<>>}, detail : {<<>>}]
    \cup [kind : {"raise"}, text : {<<>>}, detail : ErrorDetails]

\* What model.start_chat() can do: return a new handle or raise.
StartOutcomes ==
    [kind : {"ok"}, detail : {<<>>}]
    \cup [kind : {"raise"}, detail : {<<"no session">>}]

\* What langdetect.detect(text) can do: name a language or raise
\* LangDetectException.
DetectOutcomes == {"en", "LangDetectException"}

\* response and hasattr(response, "text") and response.text
has_text(response) == response.kind = "text" /\ response.text # <<>>

NoSend == [kind |-> "missing", text |-> <<>>, detail |-> <<>>]

NoStart == [kind |-> "ok", detail |-> <<>>]

\* The outcomes of a send after which generate_response returns at once,
\* and those after which it retries.
FinalOutcomes == {o \in SendOutcomes : o.kind = "raise" \/ has_text(o)}

EmptyOutcomes == SendOutcomes \ FinalOutcomes

\* One choice of every outcome a turn may consume.  An outcome the turn
\* cannot reach (a retry after a first answer with text, say) is held at
\* one value, so that each course of a turn is chosen once.
Envs ==
    [detect : DetectOutcomes, first : FinalOutcomes,
     start : {NoStart}, retry : {NoSend}]
    \cup [detect : DetectOutcomes, first : EmptyOutcomes,
          start : StartOutcomes \ {NoStart}, retry : {NoSend}]
    \cup [detect : DetectOutcomes, first : EmptyOutcomes,
          start : {NoStart}, retry : SendOutcomes]

---------------------------------------------------------------------------
(* services/agentic_ai.py.  An agent is the pair of the handle it holds    *)
(* and the number of handles created so far; a handle's identity is its    *)
(* creation number.  A call's result is [exc, val, agent, sends]: whether  *)
(* it raised, the returned value or str(e), the agent afterwards, and the  *)
(* send_message calls it made.                                             *)

FALLBACK == <<"Sorry, I couldn't generate a response.">>

ERROR_PREFIX == <<"Error: ">>

\* model.start_chat(): the next new handle.
start_chat(agent) == agent.started + 1

\* reset() that keeps the handle it holds.
reset_keeps_handle(agent, outcome) ==
    [exc |-> FALSE, val |-> NONE, agent |-> agent, sends |-> <<>>]

\* AgenticAI.reset
reset(agent, outcome) ==
    IF outcome.kind = "raise"
    THEN [exc |-> TRUE, val |-> outcome.detail, agent |-> agent, sends |-> <<>>]
    ELSE [exc |-> FALSE, val |-> NONE, sends |-> <<>>,
          agent |-> [chat_session |-> start_chat(agent),
                     started |-> agent.started + 1]]

\* langdetect.detect(text), with LangDetectException turned into "unknown".
_detect_language(text, outcome) ==
    IF outcome = "LangDetectException" THEN "unknown" ELSE outcome

\* The parts of the prompt that vary.
_build_prompt(context, user_input, input_language) ==
    [faq |-> context, language |-> input_language, user_input |-> user_input]

\* The error string without its prefix.
error_string_no_prefix(detail) == detail

\* f"... Error: {e}"
error_string(detail) == ERROR_PREFIX \o detail

\* One chat_session.send_message(prompt), as recorded.
sent(agent, prompt, outcome) ==
    [handle |-> agent.chat_session, prompt |-> prompt, outcome |-> outcome]

\* A retry that replaces the handle and gives up without sending again.
retry_without_resend(agent, prompt, first, env) ==
    LET r == reset(agent, env.start)
    IN  IF r.exc
        THEN [exc |-> TRUE, val |-> r.val, agent |-> r.agent, sends |-> <<first>>]
        ELSE [exc |-> FALSE, val |-> FALLBACK, agent |-> r.agent,
              sends |-> <<first>>]

\* A retry that sends on the handle held before reset().
retry_on_old_handle(agent, prompt, first, env) ==
    LET r == reset(agent, env.start)
        second == sent(agent, prompt, env.retry)
    IN  IF r.exc
        THEN [exc |-> TRUE, val |-> r.val, agent |-> r.agent, sends |-> <<first>>]
        ELSE IF env.retry.kind = "raise"
        THEN [exc |-> TRUE, val |-> env.retry.detail, agent |-> r.agent,
              sends |-> <<first, second>>]
        ELSE IF has_text(env.retry)
        THEN [exc |-> FALSE, val |-> Strip(env.retry.text), agent |-> r.agent,
              sends |-> <<first, second>>]
        ELSE [exc |-> FALSE, val |-> FALLBACK, agent |-> r.agent,
              sends |-> <<first, second>>]

\* A retry that returns the second response's text whatever it holds.
retry_returns_any_text(agent, prompt, first, env) ==
    LET r == reset(agent, env.start)
        second == sent(r.agent, prompt, env.retry)
    IN  IF r.exc
        THEN [exc |-> TRUE, val |-> r.val, agent |-> r.agent, sends |-> <<first>>]
        ELSE IF env.retry.kind = "raise"
        THEN [exc |-> TRUE, val |-> env.retry.detail, agent |-> r.agent,
              sends |-> <<first, second>>]
        ELSE [exc |-> FALSE, val |-> Strip(env.retry.text), agent |-> r.agent,
              sends |-> <<first, second>>]

\* The retry of generate_response, lines 81-88.
retry_once(agent, prompt, first, env) ==
    LET r == reset(agent, env.start)
        second == sent(r.agent, prompt, env.retry)
    IN  IF r.exc
        THEN [exc |-> TRUE, val |-> r.val, agent |-> r.agent, sends |-> <<first>>]
        ELSE IF env.retry.kind = "raise"
        THEN [exc |-> TRUE, val |-> env.retry.detail, agent |-> r.agent,
              sends |-> <<first, second>>]
        ELSE IF has_text(env.retry)
        THEN [exc |-> FALSE, val |-> Strip(env.retry.text), agent |-> r.agent,
              sends |-> <<first, second>>]
        ELSE [exc |-> FALSE, val |-> FALLBACK, agent |-> r.agent,
              sends |-> <<first, second>>]

\* A try block that treats a first send that raised as an empty answer.
try_generate_retry_on_error(agent, context, user_input, env) ==
    LET input_language == _detect_language(user_input, env.detect)
        prompt == _build_prompt(context, user_input, input_language)
        first == sent(agent, prompt, env.first)
    IN  IF has_text(env.first)
        THEN [exc |-> FALSE, val |-> Strip(env.first.text), agent |-> agent,
              sends |-> <<first>>]
        ELSE retry_once(agent, prompt, first, env)

\* A try block that starts a new chat for every request.
try_generate_new_chat_each_call(agent, context, user_input, env) ==
    LET fresh == [chat_session |-> start_chat(agent),
                  started |-> agent.started + 1]
        input_language == _detect_language(user_input, env.detect)
        prompt == _build_prompt(context, user_input, input_language)
        first == sent(fresh, prompt, env.first)
    IN  IF env.first.kind = "raise"
        THEN [exc |-> TRUE, val |-> env.first.detail, agent |-> fresh,
              sends |-> <<first>>]
        ELSE IF has_text(env.first)
        THEN [exc |-> FALSE, val |-> Strip(env.first.text), agent |-> fresh,
              sends |-> <<first>>]
        ELSE retry_once(fresh, prompt, first, env)

\* The try block of generate_response, lines 74-88.
try_generate(agent, context, user_input, env) ==
    LET input_language == _detect_language(user_input, env.detect)
        prompt == _build_prompt(context, user_input, input_language)
        first == sent(agent, prompt, env.first)
    IN  IF env.first.kind = "raise"
        THEN [exc |-> TRUE, val |-> env.first.detail, agent |-> agent,
              sends |-> <<first>>]
        ELSE IF has_text(env.first)
        THEN [exc |-> FALSE, val |-> Strip(env.first.text), agent |-> agent,
              sends |-> <<first>>]
        ELSE retry_once(agent, prompt, first, env)

\* except Exception as e: return the error string, lines 90-92.
except_exception(r) ==
    IF r.exc THEN [r EXCEPT !.exc = FALSE, !.val = error_string(r.val)] ELSE r

\* AgenticAI.generate_response
generate_response(agent, context, user_input, env) ==
    except_exception(try_generate(agent, context, user_input, env))

---------------------------------------------------------------------------
(* ui/chat.py                                                              *)

FAQ_MATCH == <<"FAQ Match: ">>

BLANK_LINE == <<"\n\n">>

\* f"FAQ Match: *{q}*\n\n{a}"
faq_response(q, a) == FAQ_MATCH \o Str(q) \o BLANK_LINE \o Str(a)

\* The body of _process_user_query, with found the pair that
\* faq_handler.find_similar_question(user_query) returned.
_process_user_query(user_query, found, faqs, agent, env) ==
        IF Truthy(found[2])
        THEN [exc |-> FALSE, val |-> faq_response(found[1], found[2]),
              agent |-> agent, sends |-> <<>>]
        ELSE generate_response(agent, faqs, user_query, env)

\* An entry that stores the query and the response in each other's place.
exchange_swapped(user_query, response) ==
    [user_query |-> response, bot_response |-> user_query]

\* One entry of chat_history.
exchange(user_query, response) ==
    [user_query |-> user_query, bot_response |-> response]

---------------------------------------------------------------------------
(* services/config.py.  A value read from secrets.toml is held with its    *)
(* Python type: [t |-> "str" | "int" | "list" | "dict", v |-> the value],  *)
(* a dict being a function from its keys to such values.                   *)

str(s) == [t |-> "str", v |-> s]

int(n) == [t |-> "int", v |-> n]

list(l) == [t |-> "list", v |-> l]

dict(d) == [t |-> "dict", v |-> d]

\* isinstance(x, type)
isinstance(x, type) == x.t = type

\* Python truthiness of a typed value.
truth(x) ==
    CASE x.t = "str" -> x.v # <<>>
      [] x.t = "int" -> x.v # 0
      [] x.t = "list" -> x.v # <<>>
      [] x.t = "dict" -> DOMAIN x.v # {}

\* x[key] raises TypeError or KeyError unless x is a dict holding key.
subscriptable(x, key) == x.t = "dict" /\ key \in DOMAIN x.v

\* x[k1][k2] does not raise.
has_path(x, k1, k2) ==
    /\ subscriptable(x, k1)
    /\ subscriptable(x.v[k1], k2)

ConfigError(message) == [exc |-> TRUE, type |-> "ConfigError", val |-> message]

Returned(value) == [exc |-> FALSE, type |-> "", val |-> value]

\* _validate_config
_validate_config(secrets) ==
    IF \/ ~has_path(secrets, "faq", "questions")
       \/ ~has_path(secrets, "personal", "data")
       \/ ~has_path(secrets, "genai", "api_key")
    THEN ConfigError("Missing or malformed keys in secrets.toml")
    ELSE LET faq_data == secrets.v["faq"].v["questions"]
             personal_context == secrets.v["personal"].v["data"]
             api_key == secrets.v["genai"].v["api_key"]
         IN  IF \/ ~isinstance(faq_data, "list")
                \/ ~\A n \in DOMAIN faq_data.v :
                        isinstance(faq_data.v[n], "dict")
             THEN ConfigError("faq.questions must be a list of dicts.")
             ELSE IF ~isinstance(personal_context, "dict")
             THEN ConfigError("personal.data must be a dict.")
             ELSE IF ~truth(api_key) \/ ~isinstance(api_key, "str")
             THEN ConfigError("genai.api_key must be a non-empty string.")
             ELSE Returned(<<faq_data, personal_context, api_key>>)

\* load_configuration, with file what is found at .streamlit/secrets.toml.
load_configuration(file) ==
    IF ~file.exists
    THEN ConfigError(".streamlit/secrets.toml not found.")
    ELSE IF ~file.parses
    THEN ConfigError("Failed to parse secrets.toml")
    ELSE _validate_config(file.secrets)

---------------------------------------------------------------------------
(* The inputs of the model.                                                *)

faq(category, question, answer) ==
    [category |-> category, question |-> question, answer |-> answer]

Skills == <<"S", "k", "i", "l", "l", "s">>

\* FAQ collections of a session.  _validate_config accepts every list of
\* dicts, so a record with an empty answer is among them.
SessionFaqs ==
    { <<faq(Skills, <<"A", "b">>, <<"x">>), faq(Skills, <<"c", "a">>, <<"y">>)>>,
      <<faq(Skills, <<"A", "b">>, <<"x">>), faq(Skills, <<"c">>, <<>>)>> }

\* The options of the "Feedback" radio, thumbs up and thumbs down.
FeedbackOptions == {<<"up">>, <<"down">>}

\* A [faq] record of secrets.toml with the given keys.
faq_entry(keys, category, question, answer) ==
    dict([k \in keys |->
             CASE k = "category" -> str(category)
               [] k = "question" -> str(question)
               [] k = "answer" -> str(answer)])

EntryKeys == {"category", "question", "answer"}

GoodEntry == faq_entry(EntryKeys, Skills, <<"A", "b">>, <<"x">>)

\* A key or a section that secrets.toml does not have.
ABSENT == [t |-> "absent", v |-> <<>>]

\* What secrets.toml holds at faq.questions.
FaqValues ==
    { ABSENT,
      str(<<"x">>),
      list(<<>>),
      list(<<GoodEntry>>),
      list(<<GoodEntry, str(<<"x">>)>>),
      list(<<GoodEntry, faq_entry({"category", "question"}, Skills, <<"c">>, <<>>)>>),
      list(<<GoodEntry, faq_entry(EntryKeys, Skills, <<"c">>, <<>>)>>),
      list(<<faq_entry(EntryKeys, Skills, <<>>, <<"y">>)>>),
      list(<<faq_entry(EntryKeys, <<>>, <<"c">>, <<"y">>)>>) }

\* What secrets.toml holds at personal.data.
PersonalValues ==
    { ABSENT, str(<<"x">>), dict(<<>>), dict([name |-> str(<<"A">>)]) }

\* What secrets.toml holds at genai.api_key.
ApiKeyValues == { ABSENT, str(<<>>), str(<<"k">>), int(0), int(7) }

\* The section of secrets.toml that holds value at key, if it holds any.
section(key, value) ==
    IF value = ABSENT THEN dict(<<>>) ELSE dict([k \in {key} |-> value])

\* The parsed secrets.toml; a [faq] table is left out when it would be empty.
secrets_toml(faq_data, personal_context, api_key) ==
    LET all == [faq |-> section("questions", faq_data),
                personal |-> section("data", personal_context),
                genai |-> section("api_key", api_key)]
        present == {k \in DOMAIN all : k # "faq" \/ faq_data # ABSENT}
    IN  dict([k \in present |-> all[k]])

\* What load_configuration finds at .streamlit/secrets.toml.
SecretsFiles ==
    { [exists |-> FALSE, parses |-> FALSE, secrets |-> dict(<<>>)],
      [exists |-> TRUE, parses |-> FALSE, secrets |-> dict(<<>>)] }
    \cup { [exists |-> TRUE, parses |-> TRUE,
            secrets |-> secrets_toml(f, p, k)] :
              f \in FaqValues, p \in PersonalValues, k \in ApiKeyValues }

\* What the visitor types into st.chat_input.
SessionQueries == {<<"a", "b">>, <<"c">>, <<"b", "b">>}

\* Records of the FAQ collections find_similar_question is probed with.
MatchEntries ==
    { faq(Skills, <<"a", "b">>, <<"x">>),
      faq(Skills, <<"A", "b", " ">>, <<"y">>),
      faq(Skills, <<"b", "a">>, <<"z">>),
      faq(Skills, <<"b", "c", "a">>, <<"w">>) }

RECURSIVE ListsUpTo(_, _)
ListsUpTo(S, n) ==
    IF n = 0 THEN {<<>>}
    ELSE LET shorter == ListsUpTo(S, n - 1)
         IN  shorter \cup {Append(l, e) : l \in shorter, e \in S}

MatchFaqs == ListsUpTo(MatchEntries, MaxFaqLen)

\* Values of the threshold parameter, the default among them.
Thresholds == {<<0, 1>>, <<1, 2>>, DEFAULT_THRESHOLD}

---------------------------------------------------------------------------
(* The state machine.                                                      *)

\* The outcomes recorded for a handler that consumed none.
NoEnv == [detect |-> "en", first |-> NoSend, start |-> NoStart,
          retry |-> NoSend]

NoOp == [op |-> "none", query |-> <<>>, found |-> <<NONE, NONE>>,
         env |-> NoEnv, handle_before |-> 0, started_before |-> 0,
         sends |-> <<>>, response |-> <<>>, exc |-> FALSE,
         history_before |-> <<>>, feedback |-> NONE]

NoConfig == [called |-> FALSE,
             file |-> [exists |-> FALSE, parses |-> FALSE,
                       secrets |-> dict(<<>>)],
             result |-> Returned(<<>>)]

NoProbe == [called |-> FALSE, user_input |-> <<>>, threshold |-> <<0, 1>>,
            result |-> <<NONE, NONE>>]

\* After AgenticAI.__init__ and _ensure_session_state: one handle has been
\* started and the transcript is empty.
InitSession ==
    /\ chat_history = <<>>
    /\ chat_session = 1
    /\ started = 1
    /\ last = NoOp
    /\ reset_mark = {}
    /\ turns = 0
    /\ resets = 0
    /\ probe = NoProbe

Init ==
    /\ faq_list \in SessionFaqs
    /\ InitSession
    /\ config = NoConfig

\* render_chat, lines 69-83: one submitted query.
HandleTurn(user_query, found, env) ==
    /\ turns < MaxTurns
    /\ user_query # <<>>
    /\ LET agent == [chat_session |-> chat_session, started |-> started]
           r == _process_user_query(user_query, found, faq_list, agent, env)
       IN  /\ chat_history' =
                  IF r.exc THEN chat_history
                  ELSE Append(chat_history, exchange(user_query, r.val))
           /\ chat_session' = r.agent.chat_session
           /\ started' = r.agent.started
           /\ last' = [op |-> "turn", query |-> user_query,
                       found |-> found,
                       env |-> IF r.sends = <<>> THEN NoEnv ELSE env,
                       handle_before |-> chat_session,
                       started_before |-> started, sends |-> r.sends,
                       response |-> r.val, exc |-> r.exc,
                       history_before |-> chat_history, feedback |-> NONE]
    /\ turns' = turns + 1
    /\ UNCHANGED <<faq_list, reset_mark, resets, probe, config>>

\* render_chat, lines 88 and 101-104: the Start Over button.
StartOver(outcome) ==
    /\ resets < MaxResets
    /\ chat_history # <<>>
    /\ LET agent == [chat_session |-> chat_session, started |-> started]
           r == reset(agent, outcome)
       IN  /\ chat_history' = <<>>
           /\ chat_session' = r.agent.chat_session
           /\ started' = r.agent.started
           /\ reset_mark' = IF r.exc THEN reset_mark ELSE 1..started
           /\ last' = [NoOp EXCEPT !.op = "reset",
                                   !.env = [NoEnv EXCEPT !.start = outcome],
                                   !.handle_before = chat_session,
                                   !.started_before = started,
                                   !.exc = r.exc,
                                   !.history_before = chat_history]
    /\ resets' = resets + 1
    /\ UNCHANGED <<faq_list, turns, probe, config>>

\* A feedback handler that writes the value into the latest exchange.
Feedback_annotates_exchange(feedback) ==
    /\ chat_history # <<>>
    /\ Truthy(feedback)
    /\ chat_history' =
           [chat_history EXCEPT ![Len(chat_history)] =
               [user_query |-> @.user_query, bot_response |-> @.bot_response,
                feedback |-> feedback]]
    /\ last' = [NoOp EXCEPT !.op = "feedback",
                            !.handle_before = chat_session,
                            !.started_before = started,
                            !.history_before = chat_history,
                            !.feedback = feedback]
    /\ UNCHANGED <<faq_list, chat_session, started, reset_mark, turns,
                   resets, probe, config>>

\* render_chat, lines 88-99: an option of the "Feedback" radio is chosen;
\* the rerun submits no query and logs the option.
Feedback(feedback) ==
    /\ chat_history # <<>>
    /\ Truthy(feedback)
    /\ last' = [NoOp EXCEPT !.op = "feedback",
                            !.handle_before = chat_session,
                            !.started_before = started,
                            !.history_before = chat_history,
                            !.feedback = feedback]
    /\ UNCHANGED <<faq_list, chat_history, chat_session, started, reset_mark,
                   turns, resets, probe, config>>

Next ==
    \/ \E user_query \in SessionQueries :
           \E found \in {find_similar_question(faq_list, user_query,
                                                DEFAULT_THRESHOLD)} :
               \E env \in Envs : HandleTurn(user_query, found, env)
    \/ \E outcome \in StartOutcomes : StartOver(outcome)
    \/ \E feedback \in FeedbackOptions : Feedback(feedback)

Spec == Init /\ [][Next]_vars

\* A direct call find_similar_question(user_input, threshold).
Lookup(user_input, threshold) ==
    /\ ~probe.called
    /\ probe' = [called |-> TRUE, user_input |-> user_input,
                 threshold |-> threshold,
                 result |-> find_similar_question(faq_list, user_input,
                                                  threshold)]
    /\ UNCHANGED <<faq_list, chat_history, chat_session, started, last,
                   reset_mark, turns, resets, config>>

MatchInit ==
    /\ faq_list \in MatchFaqs
    /\ InitSession
    /\ config = NoConfig

MatchNext ==
    \E user_input \in StringsUpTo(Alphabet, MaxStrLen), threshold \in Thresholds :
        Lookup(user_input, threshold)

MatchSpec == MatchInit /\ [][MatchNext]_vars

\* Startup: one call of load_configuration().
LoadConfiguration ==
    /\ ~config.called
    /\ config' = [config EXCEPT !.called = TRUE,
                                !.result = load_configuration(config.file)]
    /\ UNCHANGED <<faq_list, chat_history, chat_session, started, last,
                   reset_mark, turns, resets, probe>>

ConfigInit ==
    /\ faq_list = <<>>
    /\ InitSession
    /\ config \in {[NoConfig EXCEPT !.file = f] : f \in SecretsFiles}

ConfigNext == LoadConfiguration

ConfigSpec == ConfigInit /\ [][ConfigNext]_vars

---------------------------------------------------------------------------
(* Properties.                                                             *)

HasPrefix(s, p) == Len(s) >= Len(p) /\ SubSeq(s, 1, Len(p)) = p

IsTurn == last.op = "turn"

IsReset == last.op = "reset"

\* find_similar_question returned an entry for the query of the last turn.
Matched == last.found # <<NONE, NONE>>

FirstEmpty == last.sends # <<>> /\ last.env.first \in EmptyOutcomes

RetryEmpty == Len(last.sends) = 2 /\ last.env.retry \in EmptyOutcomes

StartRaised == last.env.start.kind = "raise"

\* C1: a turn whose query find_similar_question matched makes no
\* send_message call and answers with the matched entry's question and answer.
C1_MatchedTurnSendsNothing ==
    (IsTurn /\ Matched)
        => /\ last.sends = <<>>
           /\ last.response = faq_response(last.found[1], last.found[2])

\* C2 as stated: a turn without a match makes exactly one send_message call,
\* or exactly two when the first returned no text; no turn makes more than two.
C2_OneSendOrTwoAfterEmpty ==
    IsTurn
        => /\ Len(last.sends) <= 2
           /\ ~Matched
                => Len(last.sends) = (IF FirstEmpty THEN 2 ELSE 1)

\* C2 as amended: a turn without a match makes exactly two send_message calls
\* when the first returned no text and the fresh handle was obtained, and
\* exactly one otherwise (the first returned text or raised, or obtaining the
\* fresh handle raised); no turn makes more than two.
C2_OneSendOrTwoAfterEmptyAndRestart ==
    IsTurn
        => /\ Len(last.sends) <= 2
           /\ ~Matched
                => Len(last.sends) =
                       (IF FirstEmpty /\ ~StartRaised THEN 2 ELSE 1)

C2_Witness ==
    /\ IsTurn /\ ~Matched /\ FirstEmpty
    /\ Len(last.sends) = 2
    /\ last.env.detect = "LangDetectException"

\* C3: generate_response returns a string and raises nothing, whatever
\* language detection, the first send, start_chat and the retry send do; when
\* a send or start_chat raised, the string starts with the error prefix.
C3_NeverRaisesAndErrorsArePrefixed ==
    (IsTurn /\ last.sends # <<>>)
        => /\ ~last.exc
           /\ last.response \in Seq(STRING)
           /\ last.response # NONE
           /\ (\/ \E i \in 1..Len(last.sends) :
                      last.sends[i].outcome.kind = "raise"
               \/ FirstEmpty /\ StartRaised)
                => /\ HasPrefix(last.response, ERROR_PREFIX)
                   /\ chat_history =
                          Append(last.history_before,
                                 exchange(last.query, last.response))

C3_Witness ==
    /\ IsTurn /\ FirstEmpty /\ ~StartRaised
    /\ Len(last.sends) = 2
    /\ last.sends[2].outcome.kind = "raise"
    /\ last.response = ERROR_PREFIX \o last.sends[2].outcome.detail

\* C4 as stated: after a first send that returned no text, exactly one retry
\* is sent, on a fresh handle other than the discarded one, with the prompt of
\* the first send.
C4_EmptyFirstSendIsRetriedOnFreshHandle ==
    (IsTurn /\ FirstEmpty)
        => /\ Len(last.sends) = 2
           /\ last.sends[1].handle = last.handle_before
           /\ last.sends[2].handle = last.started_before + 1
           /\ last.sends[2].handle # last.sends[1].handle
           /\ last.sends[2].prompt = last.sends[1].prompt

\* C4 as amended: after a first send that returned no text, a fresh handle is
\* asked for; when it is obtained, exactly one retry is sent, on that handle
\* (never seen before, and now the one held), with the prompt of the first
\* send; when obtaining it raises, no retry is sent and the old handle stays.
C4_EmptyFirstSendIsRetriedIfHandleObtained ==
    (IsTurn /\ FirstEmpty)
        => /\ last.sends[1].handle = last.handle_before
           /\ ~StartRaised
                => /\ Len(last.sends) = 2
                   /\ last.sends[2].handle = last.started_before + 1
                   /\ last.sends[2].handle \notin 1..last.started_before
                   /\ last.sends[2].handle = chat_session
                   /\ last.sends[2].prompt = last.sends[1].prompt
           /\ StartRaised
                => /\ Len(last.sends) = 1
                   /\ chat_session = last.handle_before

C4_Witness ==
    /\ IsTurn /\ FirstEmpty /\ ~StartRaised
    /\ Len(last.sends) = 2
    /\ last.sends[2].handle # last.handle_before
    /\ has_text(last.env.retry)

\* C5: a send that raises is the last send of its turn, and the turn's
\* response is the error string of that exception; a first send that raises
\* leaves the handle as it was.
C5_RaisingSendEndsTheTurn ==
    IsTurn
        => \A i \in 1..Len(last.sends) :
               last.sends[i].outcome.kind = "raise"
                   => /\ i = Len(last.sends)
                      /\ last.response =
                             ERROR_PREFIX \o last.sends[i].outcome.detail
                      /\ (i = 1 => chat_session = last.handle_before)

C5_Witness ==
    /\ IsTurn
    /\ Len(last.sends) = 1
    /\ last.sends[1].outcome.kind = "raise"
    /\ HasPrefix(last.response, ERROR_PREFIX)

\* C6: when the first send and the retry both return no text the response is
\* the fallback string and the exchange is appended; the turn after such a
\* turn is routed and appended like any other.
C6_TwoEmptyAnswersGiveFallback ==
    /\ (IsTurn /\ FirstEmpty /\ RetryEmpty)
           => /\ last.response = FALLBACK
              /\ ~last.exc
              /\ chat_history =
                     Append(last.history_before, exchange(last.query, FALLBACK))
    /\ (/\ IsTurn
        /\ last.history_before # <<>>
        /\ last.history_before[Len(last.history_before)].bot_response = FALLBACK)
           => /\ ~last.exc
              /\ chat_history =
                     Append(last.history_before,
                            exchange(last.query, last.response))
              /\ Truthy(last.found[2]) => last.sends = <<>>
              /\ ~Truthy(last.found[2]) => last.sends # <<>>

C6_Witness ==
    /\ IsTurn
    /\ Len(chat_history) = 2
    /\ chat_history[1].bot_response = FALLBACK
    /\ Len(last.sends) = 1
    /\ has_text(last.env.first)
    /\ chat_history[2].bot_response = Strip(last.env.first.text)

\* C7: when Start Over completes the transcript is empty and the handle held
\* was never seen before; every later send is on a handle that did not exist
\* before that Start Over.
C7_ResetClearsTranscriptAndRenewsHandle ==
    /\ (IsReset /\ ~last.exc)
           => /\ chat_history = <<>>
              /\ chat_session \notin reset_mark
              /\ last.handle_before \in reset_mark
    /\ IsTurn
           => \A i \in 1..Len(last.sends) :
                  last.sends[i].handle \notin reset_mark

C7_Witness ==
    /\ IsTurn
    /\ reset_mark # {}
    /\ last.sends # <<>>
    /\ last.sends[1].handle = chat_session

\* C8: after Start Over ends, the transcript is cleared exactly when the
\* handle has been replaced.
C8_ResetIsAtomic ==
    IsReset
        => ((chat_history = <<>>) <=> (chat_session # last.handle_before))

\* C9: the response of every turn, as returned and as stored in the
\* transcript, is not the empty string.
C9_ResponseIsNeverEmpty ==
    IsTurn
        => /\ last.response # <<>>
           /\ chat_history[Len(chat_history)].bot_response # <<>>

\* The score of one FAQ record against a query.
Score(entry, user_input) ==
    ratio(Strip(Lower(user_input)),
          Lower(Str(GetOr(entry, "question", <<>>))))

\* The records of faqs whose score against the query no record exceeds.
Best(faqs, user_input) ==
    {n \in 1..Len(faqs) :
        \A m \in 1..Len(faqs) :
            Ge(Score(faqs[n], user_input), Score(faqs[m], user_input))}

\* C10: find_similar_question returns the question and answer of a record of
\* maximum score exactly when that maximum is at least the threshold, and
\* (None, None) otherwise, an empty FAQ list included.
C10_ReturnsBestIffAtLeastThreshold ==
    probe.called
        => LET best == Best(faq_list, probe.user_input)
               reached == \E n \in best :
                              Ge(Score(faq_list[n], probe.user_input),
                                 probe.threshold)
           IN  IF reached
               THEN \E n \in best :
                        probe.result = <<faq_list[n].question,
                                         faq_list[n].answer>>
               ELSE probe.result = <<NONE, NONE>>

\* The first of the records of maximum score.
FirstBest(faqs, user_input) ==
    CHOOSE n \in Best(faqs, user_input) :
        \A m \in Best(faqs, user_input) : n <= m

\* C11: when two or more records tie for the maximum score and that score
\* is at least the threshold, find_similar_question returns the question and
\* the answer of the tied record that comes first in list order.
C11_TieGoesToFirstInListOrder ==
    (/\ probe.called
     /\ Cardinality(Best(faq_list, probe.user_input)) >= 2
     /\ \E n \in Best(faq_list, probe.user_input) :
            Ge(Score(faq_list[n], probe.user_input), probe.threshold))
        => LET n == FirstBest(faq_list, probe.user_input)
           IN  probe.result = <<faq_list[n].question, faq_list[n].answer>>

\* C11, for the calls that return a match: the question and the answer
\* returned are those of one record, the first in list order of the records
\* of maximum score.
C11_MatchReturnedIsFirstOfBest ==
    (probe.called /\ probe.result # <<NONE, NONE>>)
        => LET n == FirstBest(faq_list, probe.user_input)
           IN  /\ faq_list # <<>>
               /\ probe.result = <<faq_list[n].question, faq_list[n].answer>>

\* Two different records tie above the default threshold, the first is
\* returned.
C11_TieReached ==
    /\ probe.called
    /\ probe.threshold = DEFAULT_THRESHOLD
    /\ Len(faq_list) = 2
    /\ faq_list[1].question # faq_list[2].question
    /\ Best(faq_list, probe.user_input) = {1, 2}
    /\ probe.result = <<faq_list[1].question, faq_list[1].answer>>

\* C12: a non-empty query and a FAQ question that are equal once each is
\* lower-cased and stripped score 1.0, and such a record is returned.
C12_EqualAfterNormalisingScoresOne ==
    probe.called
        => \A n \in 1..Len(faq_list) :
               (/\ probe.user_input # <<>>
                /\ Strip(Lower(probe.user_input))
                       = Strip(Lower(Str(faq_list[n].question))))
                   => /\ Ge(Score(faq_list[n], probe.user_input), <<1, 1>>)
                      /\ \E m \in 1..Len(faq_list) :
                             /\ Strip(Lower(Str(faq_list[m].question)))
                                    = Strip(Lower(probe.user_input))
                             /\ probe.result = <<faq_list[m].question,
                                                 faq_list[m].answer>>

\* C13: the score of x as the query against y as the FAQ question equals the
\* score of y as the query against x as the FAQ question.
C13_ScoreIsSymmetric ==
    probe.called
        => \A n \in 1..Len(faq_list) :
               LET x == probe.user_input
                   y == Str(faq_list[n].question)
                   xy == Score(faq(Skills, y, <<>>), x)
                   yx == Score(faq(Skills, x, <<>>), y)
               IN  Ge(xy, yx) /\ Ge(yx, xy)

\* C13 for strings that lower() and strip() leave as they are.
C13_ScoreIsSymmetricOnNormalisedStrings ==
    probe.called
        => \A n \in 1..Len(faq_list) :
               LET x == probe.user_input
                   y == Str(faq_list[n].question)
                   xy == Score(faq(Skills, y, <<>>), x)
                   yx == Score(faq(Skills, x, <<>>), y)
               IN  (Strip(Lower(x)) = x /\ Strip(Lower(y)) = y)
                       => Ge(xy, yx) /\ Ge(yx, xy)

IsFeedback == last.op = "feedback"

\* C14: every handled turn appends to the transcript one exchange holding the
\* submitted query as user_query and the turn's response as bot_response,
\* and leaves the earlier exchanges as they were; a reset empties the
\* transcript; so the transcript lists the turns since the last reset.
C14_TurnAppendsOneExchange ==
    [][/\ last'.op = "turn"
          => /\ last'.history_before = chat_history
             /\ chat_history' =
                    Append(chat_history,
                           [user_query |-> last'.query,
                            bot_response |-> last'.response])
       /\ last'.op = "reset" => chat_history' = <<>>
       /\ last'.op \notin {"turn", "reset"} => chat_history' = chat_history]_vars

C14_Witness ==
    /\ IsTurn
    /\ Len(chat_history) = 2
    /\ chat_history[1] = last.history_before[1]
    /\ chat_history[1].user_query # chat_history[2].user_query
    /\ chat_history[2].user_query = last.query
    /\ chat_history[2].bot_response = last.response

C17_HandleChangesOnlyByResetOrRetry ==
    [][/\ chat_session' # chat_session
          => \/ last'.op = "reset"
             \/ /\ last'.op = "turn"
                /\ last'.sends # <<>>
                /\ last'.env.first \in EmptyOutcomes
       /\ (/\ last'.op = "turn"
           /\ last'.sends # <<>>
           /\ last'.env.first \in EmptyOutcomes
           /\ last'.env.start.kind = "ok")
          => /\ chat_session' = started + 1
             /\ chat_session' # chat_session
             /\ Len(chat_history') = Len(chat_history) + 1]_vars

\* A handle put in place by a retry serves a later turn, whose first send
\* returns text, and is still held after it.
C17_Witness ==
    /\ IsTurn
    /\ resets = 0
    /\ last.handle_before # 1
    /\ has_text(last.env.first)
    /\ last.sends # <<>>
    /\ last.sends[1].handle = last.handle_before
    /\ chat_session = last.handle_before
    /\ Len(chat_history) = 2

\* The value is a string that is not empty.
NonEmptyString(x) == x.t = "str" /\ x.v # <<>>

\* The record has a non-empty category, question and answer.
WellFormedEntry(x) ==
    /\ x.t = "dict"
    /\ \A k \in EntryKeys : k \in DOMAIN x.v /\ NonEmptyString(x.v[k])

\* The FAQ list, the biographical mapping and the credential are all present
\* and none is malformed.
WellFormed(file) ==
    /\ file.exists
    /\ file.parses
    /\ has_path(file.secrets, "faq", "questions")
    /\ has_path(file.secrets, "personal", "data")
    /\ has_path(file.secrets, "genai", "api_key")
    /\ LET faq_data == file.secrets.v["faq"].v["questions"]
           personal_context == file.secrets.v["personal"].v["data"]
           api_key == file.secrets.v["genai"].v["api_key"]
       IN  /\ faq_data.t = "list"
           /\ \A n \in DOMAIN faq_data.v : WellFormedEntry(faq_data.v[n])
           /\ personal_context.t = "dict"
           /\ NonEmptyString(api_key)

\* C16: load_configuration raises ConfigError whenever the FAQ list, the
\* biographical mapping or the credential is absent or malformed, a FAQ
\* record without a non-empty category, question or answer included.
C16_AbsentOrMalformedRaisesConfigError ==
    (config.called /\ ~WellFormed(config.file))
        => config.result.exc /\ config.result.type = "ConfigError"

\* C16 without the contents of the FAQ records: load_configuration returns
\* the three values exactly when the file parses, faq.questions is a list of
\* dicts, personal.data is a dict and genai.api_key is a non-empty string,
\* and raises ConfigError otherwise.
C16_RaisesUnlessListOfDictsDictAndKey ==
    config.called
        => LET file == config.file
               shallow ==
                   /\ file.exists
                   /\ file.parses
                   /\ has_path(file.secrets, "faq", "questions")
                   /\ has_path(file.secrets, "personal", "data")
                   /\ has_path(file.secrets, "genai", "api_key")
                   /\ file.secrets.v["faq"].v["questions"].t = "list"
                   /\ \A n \in DOMAIN file.secrets.v["faq"].v["questions"].v :
                          file.secrets.v["faq"].v["questions"].v[n].t = "dict"
                   /\ file.secrets.v["personal"].v["data"].t = "dict"
                   /\ NonEmptyString(file.secrets.v["genai"].v["api_key"])
           IN  IF shallow
               THEN config.result =
                        Returned(<<file.secrets.v["faq"].v["questions"],
                                   file.secrets.v["personal"].v["data"],
                                   file.secrets.v["genai"].v["api_key"]>>)
               ELSE config.result.exc /\ config.result.type = "ConfigError"

===========================================================================
